---- MODULE Spec2Model ----
(***************************************************************************)
(* A model of medacy/tools/con_form/brat_to_con.py: the brat line grammar  *)
(* (is_valid_brat), the line parser (line_to_dict), the offset resolver    *)
(* (find_line_num, get_line_index, get_word_num) and the conversion loop   *)
(* of convert_brat_to_con.                                                 *)
(*                                                                         *)
(* A Python str is modelled as a sequence of one-character strings.        *)
(* Python indices are 0-based; TLA+ sequences are 1-based, so the          *)
(* character at Python index p of s is s[p + 1].                           *)
(***************************************************************************)
EXTENDS Integers, Sequences, FiniteSets, TLC

VARIABLES
    text,             \* the document text (text = text_file.read())
    item,             \* the annotation line handed to the parser
    src,              \* the record and separators item was written from
    call,             \* the last call of a pure function, with its result
    brat_text_lines,  \* the annotation lines the loop iterates over
    pos,              \* number of annotation lines the loop has consumed
    output_lines,     \* the con text accumulated so far
    log,              \* the messages given to logging.warning, in order
    status            \* "running", "returned" or "raised"; "idle" outside the loop

vars == <<text, item, src, call, brat_text_lines, pos, output_lines, log, status>>

(***************************************************************************)
(* Bounds of the model.                                                    *)
(***************************************************************************)
MaxTextLen == 5
MaxSpaces == 7
MaxOffset == 1
MaxLines == 2

(***************************************************************************)
(* Characters.                                                             *)
(***************************************************************************)
SP == " "
TAB == "\t"
NL == "\n"

Digits == <<"0", "1", "2", "3", "4", "5", "6", "7", "8", "9">>

IsDigit(c) == \E d \in 1..10 : Digits[d] = c

\* str.isspace() / the complement of the regex class \S
IsSpace(c) == c \in {SP, TAB, NL}

Min(S) == CHOOSE x \in S : \A y \in S : x <= y

(***************************************************************************)
(* Python str primitives used by the program.                              *)
(***************************************************************************)
\* s[a:b] for a, b >= 0
Slice(s, a, b) ==
    LET hi == IF b > Len(s) THEN Len(s) ELSE b
    IN  IF a >= hi THEN <<>> ELSE SubSeq(s, a + 1, hi)

\* s.count(c) for a one-character c
Count(s, c) == Cardinality({i \in 1..Len(s) : s[i] = c})

\* s.split(c) and re.split(c, s) for a one-character separator c
RECURSIVE Split(_, _)
Split(s, c) ==
    IF \A i \in 1..Len(s) : s[i] # c
    THEN <<s>>
    ELSE LET i == Min({j \in 1..Len(s) : s[j] = c})
         IN  <<SubSeq(s, 1, i - 1)>> \o Split(SubSeq(s, i + 1, Len(s)), c)

\* s.startswith(p)
StartsWith(s, p) == Len(s) >= Len(p) /\ SubSeq(s, 1, Len(p)) = p

\* s.rstrip()
RECURSIVE RStrip(_)
RStrip(s) ==
    IF s # <<>> /\ IsSpace(s[Len(s)]) THEN RStrip(SubSeq(s, 1, Len(s) - 1)) ELSE s

\* the exceptions the program can end with
ValueError == "ValueError"
IndexError == "IndexError"

\* str(n) for an integer n
RECURSIVE NatToStr(_)
NatToStr(n) ==
    IF n < 10 THEN <<Digits[n + 1]>> ELSE NatToStr(n \div 10) \o <<Digits[(n % 10) + 1]>>

IntToStr(n) == IF n < 0 THEN <<"-">> \o NatToStr(0 - n) ELSE NatToStr(n)

DigitVal(c) == (CHOOSE d \in 1..10 : Digits[d] = c) - 1

RECURSIVE DigitsToNat(_)
DigitsToNat(s) ==
    IF s = <<>> THEN 0 ELSE 10 * DigitsToNat(SubSeq(s, 1, Len(s) - 1)) + DigitVal(s[Len(s)])

\* int(s): surrounding whitespace is ignored, one sign is allowed, then digits
\* only; anything else raises ValueError
RECURSIVE LStrip(_)
LStrip(s) == IF s # <<>> /\ IsSpace(s[1]) THEN LStrip(Tail(s)) ELSE s

\* int(s) raises ValueError
IntRaises(s) ==
    LET t == LStrip(RStrip(s))
        d == IF t # <<>> /\ t[1] \in {"-", "+"} THEN Tail(t) ELSE t
    IN  d = <<>> \/ \E i \in 1..Len(d) : ~IsDigit(d[i])

\* the value of int(s) when it does not raise
StrToInt(s) ==
    LET t == LStrip(RStrip(s))
    IN  IF t[1] = "-" THEN 0 - DigitsToNat(Tail(t))
        ELSE IF t[1] = "+" THEN DigitsToNat(Tail(t))
        ELSE DigitsToNat(t)

(***************************************************************************)
(* The offset resolver.                                                    *)
(***************************************************************************)
\* Mutation of whitespace_pattern: " +|\t+", a run of one kind of character.
RECURSIVE SameCharRunEnd(_, _, _)
SameCharRunEnd(s, p, c) ==
    IF p < Len(s) /\ s[p + 1] = c THEN SameCharRunEnd(s, p + 1, c) ELSE p

whitespace_pattern_same_char(s, p) ==
    IF p < Len(s) /\ s[p + 1] \in {SP, TAB} THEN SameCharRunEnd(s, p, s[p + 1]) ELSE p

\* whitespace_pattern = "( +|\t+)+" matched at Python index p of s: the index
\* one past the match (the repetition is greedy, so the match takes spaces and
\* tabs as long as there are any), or p when the pattern does not match at p.
RECURSIVE whitespace_pattern(_, _)
whitespace_pattern(s, p) ==
    IF p < Len(s) /\ s[p + 1] \in {SP, TAB} THEN whitespace_pattern(s, p + 1) ELSE p

\* findall(whitespace_pattern, s): the non-overlapping matches, left to right,
\* scanning from Python index p; each match is given by its span.
RECURSIVE findall(_, _)
findall(s, p) ==
    IF p >= Len(s)
    THEN <<>>
    ELSE LET e == whitespace_pattern(s, p)
         IN  IF e > p
             THEN <<[from |-> p, to |-> e]>> \o findall(s, e)
             ELSE findall(s, p + 1)

\* Mutation of get_line_index: text_.rindex(line_), the last occurrence.
get_line_index_last(text_, line_) ==
    LET occ == {p \in 0..(Len(text_) - Len(line_)) : Slice(text_, p, p + Len(line_)) = line_}
    IN  IF occ = {} THEN ValueError ELSE CHOOSE p \in occ : \A q \in occ : q <= p

\* text_.index(line_): the first occurrence of line_ in text_
get_line_index(text_, line_) ==
    LET occ == {p \in 0..(Len(text_) - Len(line_)) : Slice(text_, p, p + Len(line_)) = line_}
    IN  IF occ = {} THEN ValueError ELSE Min(occ)

\* Mutation of find_line_num: the newlines after the offset are counted.
find_line_num_after(text_, start) == Count(Slice(text_, start, Len(text_)), NL)

\* text_[:int(start)].count("\n")
find_line_num(text_, start) == Count(Slice(text_, 0, start), NL)

\* Mutation of get_word_num: the runs are counted from the start of the
\* document, text_[:entity_index], whatever line_index is.
get_word_num_from_zero(text_, line_index, entity_index) ==
    Len(findall(Slice(text_, 0, entity_index), 0))

get_word_num(text_, line_index, entity_index) ==
    LET substring_before_entity == Slice(text_, line_index, entity_index)
        matched_spaces == findall(substring_before_entity, 0)
    IN  Len(matched_spaces)

\* Lines 136-139 (and 142-145) of convert_brat_to_con: the coordinate of one
\* offset, before it is rendered: <<line number + 1, word number>>.
coordinate(text_, ind) ==
    LET text_lines == Split(text_, NL)
        line_num == find_line_num(text_, ind)
        text_line == text_lines[line_num + 1]
        line_index == get_line_index(text_, text_line)
        word_num == get_word_num(text_, line_index, ind)
    IN  <<line_num + 1, word_num>>

\* str(line_num + 1) + ':' + str(word_num)
coordinate_str(c) == IntToStr(c[1]) \o <<":">> \o IntToStr(c[2])


(***************************************************************************)
(* The annotation parser.                                                  *)
(*                                                                         *)
(* fullmatch(brat_pattern, item, DOTALL) is computed as the set of         *)
(* positions the pattern can reach: a piece of the pattern maps the set P  *)
(* of positions reached before it to the set of positions reached after    *)
(* it, and the line matches when the whole pattern can reach its end.      *)
(***************************************************************************)
KindLetters == {"T", "R", "E", "A", "M", "N"}

\* the character classes of brat_pattern; "." is any character under DOTALL
InClass(c, cls) ==
    CASE cls = "[TREAMN]" -> c \in KindLetters
      [] cls = "\\d" -> IsDigit(c)
      [] cls = "\\S" -> ~IsSpace(c)
      [] cls = "." -> TRUE

\* one character of a class
One(s, P, cls) == {p + 1 : p \in {q \in P : q < Len(s) /\ InClass(s[q + 1], cls)}}

\* one or more characters of a class
RECURSIVE Plus(_, _, _)
Plus(s, P, cls) ==
    LET Q == One(s, P, cls) IN IF Q = {} THEN {} ELSE Q \cup Plus(s, Q, cls)

\* one literal character
Lit(s, P, c) == {p + 1 : p \in {q \in P : q < Len(s) /\ s[q + 1] = c}}

\* exactly n spaces
RECURSIVE Spaces(_, _, _)
Spaces(s, P, n) == IF n = 0 THEN P ELSE Spaces(s, Lit(s, P, SP), n - 1)

SepMin == 3
SepMax == 6

\* Mutation of separator: (\t| {3,7}), one space more is let through.
separator_wider(s, P) ==
    Lit(s, P, TAB) \cup UNION {Spaces(s, P, n) : n \in SepMin..(SepMax + 1)}

\* (\t| {3,6})
separator(s, P) == Lit(s, P, TAB) \cup UNION {Spaces(s, P, n) : n \in SepMin..SepMax}

\* Mutation of is_valid_brat: the two offsets are \S+ instead of \d+.
is_valid_brat_any_offset(it) ==
    LET p1 == One(it, {0}, "[TREAMN]")
        p2 == Plus(it, p1, "\\d")
        p3 == separator(it, p2)
        p4 == Plus(it, p3, "\\S")
        p5 == Lit(it, p4, SP)
        p6 == Plus(it, p5, "\\S")
        p7 == Lit(it, p6, SP)
        p8 == Plus(it, p7, "\\S")
        p9 == separator(it, p8)
        p10 == Plus(it, p9, ".")
    IN  Len(it) \in p10

\* fullmatch(r"[TREAMN]\d+(\t| {3,6})\S+ \d+ \d+(\t| {3,6}).+", item, DOTALL);
\* item is a str in every call the model makes
is_valid_brat(it) ==
    LET p1 == One(it, {0}, "[TREAMN]")
        p2 == Plus(it, p1, "\\d")
        p3 == separator(it, p2)
        p4 == Plus(it, p3, "\\S")
        p5 == Lit(it, p4, SP)
        p6 == Plus(it, p5, "\\d")
        p7 == Lit(it, p6, SP)
        p8 == Plus(it, p7, "\\d")
        p9 == separator(it, p8)
        p10 == Plus(it, p9, ".")
    IN  Len(it) \in p10

\* s = [i.rstrip() for i in split3], with split1, split2, split3 as in the
\* code; defined when split1 has the three parts the code indexes
Stripped(it) ==
    LET split1 == Split(it, TAB)
        split2 == Split(split1[2], SP)
        split3 == <<split1[1]>> \o split2 \o <<split1[3]>>
    IN  [i \in 1..Len(split3) |-> RStrip(split3[i])]

\* The exception line_to_dict ends with, or "none". The subscripts and the
\* int() calls are taken in the order the code evaluates them.
line_to_dict_error(it) ==
    IF Len(Split(it, TAB)) < 3 THEN IndexError
    ELSE LET s == Stripped(it)
         IN  IF s[1] = <<>> THEN IndexError
             ELSE IF IntRaises(Tail(s[1])) THEN ValueError
             ELSE IF IntRaises(s[3]) THEN ValueError
             ELSE IF Len(s) < 4 THEN IndexError
             ELSE IF IntRaises(s[4]) THEN ValueError
             ELSE IF Len(s) < 5 THEN IndexError
             ELSE "none"

\* the dictionary line_to_dict returns when it raises nothing
line_to_dict(it) ==
    LET s == Stripped(it)
    IN  [id_type |-> s[1][1], id_num |-> StrToInt(Tail(s[1])), data_type |-> s[2],
         start_ind |-> StrToInt(s[3]), end_ind |-> StrToInt(s[4]), data_item |-> s[5]]

(***************************************************************************)
(* Annotation lines of the model: a record written out with two            *)
(* separators, each a tab or 1 to MaxSpaces spaces.                        *)
(***************************************************************************)
Blanks(n) == [i \in 1..n |-> SP]

Separators == {<<TAB>>} \cup {Blanks(n) : n \in 1..MaxSpaces}

Contents ==
    {<<"a">>, <<"a", SP, "b">>, <<SP, "a">>, <<"a", SP>>, <<"a", TAB, "b">>, <<"a", NL, "b">>}

Records ==
    [id_type : {"T", "N"}, id_num : {1, 10}, data_type : {<<"x">>},
     start_ind : (0 - 1)..MaxOffset, end_ind : (0 - 1)..MaxOffset, data_item : Contents]

\* <kind><id> sep1 <label> SPACE <start> SPACE <end> sep2 <content>
RenderLine(r, sep1, sep2) ==
    <<r.id_type>> \o IntToStr(r.id_num) \o sep1 \o r.data_type \o <<SP>>
        \o IntToStr(r.start_ind) \o <<SP>> \o IntToStr(r.end_ind) \o sep2 \o r.data_item

NoSrc == [rec |-> "none"]

(***************************************************************************)
(* Document texts of the model: every text over the alphabet up to         *)
(* MaxTextLen characters.                                                  *)
(***************************************************************************)
TextAlphabet == {"a", SP, TAB, NL}

SeqsUpTo(S, n) == UNION {[1..k -> S] : k \in 0..n}

Texts == SeqsUpTo(TextAlphabet, MaxTextLen)

NoCall == [fn |-> "none"]

DriverIdle ==
    /\ brat_text_lines = <<>>
    /\ pos = 0
    /\ output_lines = <<>>
    /\ log = <<>>
    /\ status = "idle"

(***************************************************************************)
(* Specification of the resolver: a document, then one call.               *)
(***************************************************************************)
InitResolve ==
    /\ text \in Texts
    /\ item = <<>>
    /\ src = NoSrc
    /\ call = NoCall
    /\ DriverIdle

\* both offsets of one annotation resolved, lines 136-146
Resolve ==
    /\ call = NoCall
    /\ \E s, e \in 0..(Len(text) + 1) :
          call' = [fn |-> "resolve", start_ind |-> s, end_ind |-> e,
                   start |-> coordinate(text, s), end |-> coordinate(text, e)]
    /\ UNCHANGED <<text, item, src, brat_text_lines, pos, output_lines, log, status>>

\* get_word_num called directly
CallGetWordNum ==
    /\ call = NoCall
    /\ \E li, ei \in 0..(Len(text) + 1) :
          call' = [fn |-> "get_word_num", line_index |-> li, entity_index |-> ei,
                   result |-> get_word_num(text, li, ei)]
    /\ UNCHANGED <<text, item, src, brat_text_lines, pos, output_lines, log, status>>

NextResolve == Resolve \/ CallGetWordNum

SpecResolve == InitResolve /\ [][NextResolve]_vars

(***************************************************************************)
(* Specification of the parser: a line, then one call.                     *)
(***************************************************************************)
InitParse ==
    /\ text = <<>>
    /\ \E r \in Records, sep1, sep2 \in Separators :
          /\ src = [rec |-> r, sep1 |-> sep1, sep2 |-> sep2]
          /\ item = RenderLine(r, sep1, sep2)
    /\ call = NoCall
    /\ DriverIdle

CallIsValidBrat ==
    /\ call = NoCall
    /\ call' = [fn |-> "is_valid_brat", result |-> is_valid_brat(item)]
    /\ UNCHANGED <<text, item, src, brat_text_lines, pos, output_lines, log, status>>

\* line_to_dict raises
CallLineToDictRaises ==
    /\ call = NoCall
    /\ line_to_dict_error(item) # "none"
    /\ call' = [fn |-> "line_to_dict", raised |-> line_to_dict_error(item)]
    /\ UNCHANGED <<text, item, src, brat_text_lines, pos, output_lines, log, status>>

\* line_to_dict returns
CallLineToDict ==
    /\ call = NoCall
    /\ line_to_dict_error(item) = "none"
    /\ call' = [fn |-> "line_to_dict", raised |-> "none", result |-> line_to_dict(item)]
    /\ UNCHANGED <<text, item, src, brat_text_lines, pos, output_lines, log, status>>

NextParse == CallIsValidBrat \/ CallLineToDictRaises \/ CallLineToDict

SpecParse == InitParse /\ [][NextParse]_vars

(***************************************************************************)
(* The conversion loop of convert_brat_to_con.                             *)
(***************************************************************************)
\* "c=\"%s\" %s %s||t=\"%s\"\n" % (d["data_item"], start_str, end_str, d['data_type'])
con_line(text_, d) ==
    LET start_str == coordinate_str(coordinate(text_, d.start_ind))
        end_str == coordinate_str(coordinate(text_, d.end_ind))
    IN  <<"c", "=", "\"">> \o d.data_item \o <<"\"", SP>> \o start_str \o <<SP>>
            \o end_str \o <<"|", "|", "t", "=", "\"">> \o d.data_type \o <<"\"", NL>>

\* the brat_file_path argument, which the warning quotes
brat_file_path == <<"d", ".", "a", "n", "n">>

\* "Incorrectly formatted line in %s was skipped: \"%s\"." % (brat_file_path, line)
warning_message(line) ==
    <<"I", "n", "c", "o", "r", "r", "e", "c", "t", "l", "y", SP, "f",
          "o", "r", "m", "a", "t", "t", "e", "d", SP, "l", "i", "n", "e",
          SP, "i", "n", SP>>
        \o brat_file_path \o
    <<SP, "w", "a", "s", SP, "s", "k", "i", "p", "p", "e", "d", ":", SP,
          "\"">>
        \o line \o <<"\"", ".">>

\* line.startswith("#") or not line
is_skipped(line) == StartsWith(line, <<"#">>) \/ line = <<>>

(***************************************************************************)
(* Inputs of the loop: a few documents, and the lines of an annotation     *)
(* file (brat_text.split('\n'): at least one line, none with a newline).   *)
(***************************************************************************)
DriverTexts ==
    {<<"a", SP, "b", NL, "c">>, <<SP, "a", NL, NL, "a">>, <<"a", NL, "a", SP, "a">>}

DriverRecords ==
    [id_type : {"T"}, id_num : {1}, data_type : {<<"x">>},
     start_ind : 0..MaxOffset, end_ind : 0..MaxOffset, data_item : {<<"a">>}]

DriverLines ==
    {<<>>, <<"#", "c">>, <<"b", "a", "d">>}
        \cup {RenderLine(r, <<TAB>>, <<TAB>>) : r \in DriverRecords}
        \cup {RenderLine(r, Blanks(SepMin), Blanks(SepMin)) : r \in DriverRecords}

Init ==
    /\ text \in DriverTexts
    /\ \E n \in 1..MaxLines : brat_text_lines \in [1..n -> DriverLines]
    /\ pos = 0
    /\ output_lines = <<>>
    /\ log = <<>>
    /\ status = "running"
    /\ item = <<>>
    /\ src = NoSrc
    /\ call = NoCall

Looping == status = "running" /\ pos < Len(brat_text_lines)

\* the line the iteration is about
line == brat_text_lines[pos + 1]

\* lines 127-129: a comment or a blank line is passed over
SkipLine ==
    /\ Looping
    /\ is_skipped(line)
    /\ pos' = pos + 1
    /\ UNCHANGED <<text, item, src, call, brat_text_lines, output_lines, log, status>>

\* lines 130-132: a line the grammar rejects is logged and passed over
WarnLine ==
    /\ Looping
    /\ ~is_skipped(line)
    /\ ~is_valid_brat(line)
    /\ log' = Append(log, warning_message(line))
    /\ pos' = pos + 1
    /\ UNCHANGED <<text, item, src, call, brat_text_lines, output_lines, status>>

\* lines 134-149: the line is parsed, both offsets resolved, one con line added
ConvertLine ==
    /\ Looping
    /\ ~is_skipped(line)
    /\ is_valid_brat(line)
    /\ line_to_dict_error(line) = "none"
    /\ output_lines' = output_lines \o con_line(text, line_to_dict(line))
    /\ pos' = pos + 1
    /\ UNCHANGED <<text, item, src, call, brat_text_lines, log, status>>

\* line 134: line_to_dict raises, nothing catches it, the call ends
RaiseLine ==
    /\ Looping
    /\ ~is_skipped(line)
    /\ is_valid_brat(line)
    /\ line_to_dict_error(line) # "none"
    /\ status' = "raised"
    /\ call' = [fn |-> "line_to_dict", raised |-> line_to_dict_error(line)]
    /\ UNCHANGED <<text, item, src, brat_text_lines, pos, output_lines, log>>

\* line 151: the loop is over, output_lines is returned
Return ==
    /\ status = "running"
    /\ pos = Len(brat_text_lines)
    /\ status' = "returned"
    /\ UNCHANGED <<text, item, src, call, brat_text_lines, pos, output_lines, log>>

Next == SkipLine \/ WarnLine \/ ConvertLine \/ RaiseLine \/ Return

Spec == Init /\ [][Next]_vars

(***************************************************************************)
(* Reference notions the statements about the resolver are written in.     *)
(* They are set-based descriptions, independent of the scans above.        *)
(***************************************************************************)
IsBlank(c) == c \in {SP, TAB}

\* the number of newline characters in t[0:off]
NewlinesBefore(t, off) == Cardinality({i \in 1..Len(t) : i <= off /\ t[i] = NL})

\* the index at which the line holding offset off really begins: 0, or one
\* past the last newline before off
TrueLineStart(t, off) ==
    LET nl == {i \in 1..Len(t) : i <= off /\ t[i] = NL}
    IN  IF nl = {} THEN 0 ELSE CHOOSE i \in nl : \A j \in nl : j <= i

\* the number of maximal runs of spaces and tabs in t[a:b]
BlankRuns(t, a, b) ==
    Cardinality({i \in 1..Len(t) :
                    /\ a < i /\ i <= b
                    /\ IsBlank(t[i])
                    /\ (i = a + 1 \/ ~IsBlank(t[i - 1]))})

\* the newline-split lines of t are pairwise distinct
LinesDistinct(t) ==
    LET ls == Split(t, NL)
    IN  \A i, j \in 1..Len(ls) : i # j => ls[i] # ls[j]

\* the text of the line holding off occurs nowhere in t before that line
LineNotEarlier(t, off) ==
    LET s == TrueLineStart(t, off)
        own == Split(t, NL)[NewlinesBefore(t, off) + 1]
    IN  \A p \in 0..(s - 1) : Slice(t, p, p + Len(own)) # own

\* off lies inside a token: on a character that is no space, tab or newline
InToken(t, off) == off < Len(t) /\ ~IsSpace(t[off + 1])

\* the 0-based index, within its line, of the token holding offset off
TokenIndex(t, off) ==
    LET s == TrueLineStart(t, off)
    IN  Cardinality({i \in 1..Len(t) :
                        /\ s < i /\ i <= off + 1
                        /\ ~IsBlank(t[i])
                        /\ (i = s + 1 \/ IsBlank(t[i - 1]))}) - 1

LineBeginsBlank(t, off) ==
    LET s == TrueLineStart(t, off) IN s < Len(t) /\ IsBlank(t[s + 1])

Resolved == call.fn = "resolve"
WordNumCalled == call.fn = "get_word_num"

\* C1 as stated: when the newline-split lines of the text are pairwise
\* distinct and the offset lies in [0, len(text)), the coordinate of the
\* offset is (L + 1, W), L the newlines before the offset and W the runs of
\* spaces and tabs between the true start of line L and the offset.
C1_AsStated ==
    (Resolved /\ call.start_ind < Len(text) /\ LinesDistinct(text))
        => call.start = <<NewlinesBefore(text, call.start_ind) + 1,
                          BlankRuns(text, TrueLineStart(text, call.start_ind),
                                    call.start_ind)>>

\* C1 amended: the same coordinate, for every text and offset in
\* [0, len(text)) such that the text of the offset's line occurs nowhere in
\* the document before the place where that line begins.
C1_Coordinate ==
    (Resolved /\ call.start_ind < Len(text) /\ LineNotEarlier(text, call.start_ind))
        => call.start = <<NewlinesBefore(text, call.start_ind) + 1,
                          BlankRuns(text, TrueLineStart(text, call.start_ind),
                                    call.start_ind)>>

C1_Witness ==
    /\ Resolved /\ call.start_ind < Len(text)
    /\ LineNotEarlier(text, call.start_ind)
    /\ NewlinesBefore(text, call.start_ind) >= 1
    /\ call.start[1] = 2 /\ call.start[2] >= 1

\* get_word_num called with the true start of the line of an offset that
\* lies inside a token
TokenCall ==
    /\ WordNumCalled
    /\ InToken(text, call.entity_index)
    /\ call.line_index = TrueLineStart(text, call.entity_index)

C9_CountsRuns ==
    WordNumCalled =>
        call.result = BlankRuns(text, call.line_index, call.entity_index)

\* a run that mixes a space and a tab, and two runs a newline keeps apart
C9_Witness ==
    /\ WordNumCalled
    /\ call.line_index = 0 /\ call.entity_index = Len(text)
    /\ \/ /\ \E i \in 1..(Len(text) - 1) : text[i] = SP /\ text[i + 1] = TAB
          /\ call.result = 1
       \/ /\ \E i \in 2..(Len(text) - 1) :
                 IsBlank(text[i - 1]) /\ text[i] = NL /\ IsBlank(text[i + 1])
          /\ call.result = 2

\* C10: with start_ind <= end_ind the start coordinate is lexicographically
\* not greater than the end coordinate, line numbers are at least 1 and word
\* numbers at least 0.
C10_Monotone ==
    (Resolved /\ call.start_ind <= call.end_ind) =>
        /\ call.start[1] >= 1 /\ call.end[1] >= 1
        /\ call.start[2] >= 0 /\ call.end[2] >= 0
        /\ call.start[1] <= call.end[1]
        /\ (call.start[1] = call.end[1] => call.start[2] <= call.end[2])

C10_Witness ==
    /\ Resolved /\ call.start_ind < call.end_ind
    /\ call.start[1] = call.end[1]
    /\ call.start[2] < call.end[2]

(***************************************************************************)
(* Statements about the parser.                                            *)
(***************************************************************************)
ValidBratCalled == call.fn = "is_valid_brat"
LineToDictCalled == call.fn = "line_to_dict"

AllSpaces(sep) == \A i \in 1..Len(sep) : sep[i] = SP

\* a separator the grammar names: one tab, or 3 to 6 spaces
GrammarSep(sep) == sep = <<TAB>> \/ (AllSpaces(sep) /\ Len(sep) >= 3 /\ Len(sep) <= 6)

NarrowSep(sep) == AllSpaces(sep) /\ Len(sep) >= 1 /\ Len(sep) <= 2
WideSep(sep) == AllSpaces(sep) /\ Len(sep) >= 7

\* the record is written with digits only: item has the form
\* <kind><digits> sep1 <label> <digits> <digits> sep2 <content>
DigitForm == src.rec.start_ind >= 0 /\ src.rec.end_ind >= 0

\* C2 as stated: lines of the grammar's form are accepted, and replacing
\* either one of the two separators by 1-2 spaces or by 7 or more spaces
\* makes the line rejected.
C2_AsStated ==
    (ValidBratCalled /\ DigitForm) =>
        /\ (GrammarSep(src.sep1) /\ GrammarSep(src.sep2)) => call.result
        /\ ((NarrowSep(src.sep1) \/ WideSep(src.sep1)) /\ GrammarSep(src.sep2))
               => ~call.result
        /\ (GrammarSep(src.sep1) /\ (NarrowSep(src.sep2) \/ WideSep(src.sep2)))
               => ~call.result

\* C2 amended: lines of the grammar's form are accepted; replacing the first
\* separator by 1-2 or by 7 or more spaces makes the line rejected;
\* replacing the second separator by 1-2 spaces makes the line rejected
\* when the content does not begin with a space; replacing the second
\* separator by 7 or more spaces leaves the line accepted.
C2_Separators ==
    (ValidBratCalled /\ DigitForm) =>
        /\ (GrammarSep(src.sep1) /\ GrammarSep(src.sep2)) => call.result
        /\ ((NarrowSep(src.sep1) \/ WideSep(src.sep1)) /\ GrammarSep(src.sep2))
               => ~call.result
        /\ (GrammarSep(src.sep1) /\ NarrowSep(src.sep2) /\ src.rec.data_item[1] # SP)
               => ~call.result
        /\ (GrammarSep(src.sep1) /\ WideSep(src.sep2)) => call.result

C2_Witness ==
    /\ ValidBratCalled /\ DigitForm
    /\ WideSep(src.sep1) /\ GrammarSep(src.sep2) /\ Len(src.sep2) = 6
    /\ ~call.result

\* C3 as stated: on every line is_valid_brat accepts, line_to_dict raises
\* nothing and returns a record with all six fields, whichever of the
\* allowed separators the line uses.
C3_AsStated ==
    (LineToDictCalled /\ is_valid_brat(item)) =>
        /\ call.raised = "none"
        /\ DOMAIN call.result =
               {"id_type", "id_num", "data_type", "start_ind", "end_ind", "data_item"}

\* whitespace occurs in the content only embedded: not first, not last
EmbeddedOnly(c) == ~IsSpace(c[1]) /\ ~IsSpace(c[Len(c)])

\* C4 as stated: a record written as <kind><id> TAB <label> SPACE <start>
\* SPACE <end> TAB <content> and parsed with line_to_dict comes back equal
\* in every field. The statement is taken at its narrowest: the content has
\* whitespace only between two other characters.
C4_AsStated ==
    (LineToDictCalled /\ src.sep1 = <<TAB>> /\ src.sep2 = <<TAB>>
        /\ EmbeddedOnly(src.rec.data_item)) =>
        /\ call.raised = "none"
        /\ call.result = src.rec

\* C5 as stated: every line is_valid_brat accepts has its start offset
\* strictly smaller than its end offset.
C5_AsStated ==
    (LineToDictCalled /\ is_valid_brat(item) /\ call.raised = "none")
        => call.result.start_ind < call.result.end_ind

\* C5 amended: every line is_valid_brat accepts has two offsets written in
\* decimal digits only, so both are non-negative integers; the grammar puts
\* no order between them.
C5_OffsetsAreDigits ==
    /\ (ValidBratCalled /\ call.result) => DigitForm
    /\ (LineToDictCalled /\ is_valid_brat(item) /\ call.raised = "none")
           => (call.result.start_ind >= 0 /\ call.result.end_ind >= 0)

C5_Witness ==
    /\ LineToDictCalled /\ is_valid_brat(item) /\ call.raised = "none"
    /\ call.result.start_ind > call.result.end_ind
    /\ call.result.end_ind >= 0

(***************************************************************************)
(* Statements about the conversion loop.                                   *)
(***************************************************************************)
\* the input lines that are neither blank nor comments, picked by test
Picked(Test(_)) ==
    {i \in 1..Len(brat_text_lines) :
        ~is_skipped(brat_text_lines[i]) /\ Test(brat_text_lines[i])}

Accepted(l) == is_valid_brat(l)
Rejected(l) == ~is_valid_brat(l)

\* the k-th smallest member of a set of numbers
Kth(S, k) == CHOOSE i \in S : Cardinality({j \in S : j <= i}) = k

\* the renderings of the accepted lines, in input order
RECURSIVE RenderedUpTo(_)
RenderedUpTo(k) ==
    IF k = 0 THEN <<>>
    ELSE RenderedUpTo(k - 1)
             \o con_line(text, line_to_dict(brat_text_lines[Kth(Picked(Accepted), k)]))

Contains(s, sub) == \E p \in 0..(Len(s) - Len(sub)) : Slice(s, p, p + Len(sub)) = sub

\* C6 as stated: the call raises no error and its output is one rendered
\* line per input line that is not blank, not a comment and not rejected by
\* is_valid_brat, in input order; with no such line the output is empty.
C6_AsStated ==
    /\ status # "raised"
    /\ status = "returned" =>
           /\ Count(output_lines, NL) = Cardinality(Picked(Accepted))
           /\ output_lines = RenderedUpTo(Cardinality(Picked(Accepted)))

\* C7 as stated: when the call is over, the warnings logged are as many as
\* the input lines that are not blank, not comments and rejected by
\* is_valid_brat, the k-th warning quoting the k-th such line; the loop went
\* on to the lines that follow instead of aborting.
C7_AsStated ==
    status \in {"returned", "raised"} =>
        /\ Len(log) = Cardinality(Picked(Rejected))
        /\ \A k \in 1..Len(log) :
               Contains(log[k], brat_text_lines[Kth(Picked(Rejected), k)])

====
